---- MODULE Spec2Model ----
(***************************************************************************)
(* A model of three pieces of the mirbft library:                          *)
(*   - the per-slot three-phase state machine (type sequence),             *)
(*   - the per-peer message admitter (type nodeMsgs / epochMsgs),          *)
(*   - the epoch-change constructor (constructNewEpochConfig).             *)
(* Each piece has its own specification over the shared variables; the     *)
(* variables of the other pieces stay at their initial values.             *)
(***************************************************************************)
EXTENDS Integers, Sequences, FiniteSets, Bags, TLC

VARIABLES
    seq,          \* the sequence object (one slot of one epoch)
    actions,      \* the *Actions returned by the last sequence operation
    panicked,     \* TRUE once an operation has panicked (the process aborts)
    persistLog,   \* every entry handed to the persister, in order
    sendLog,      \* every message handed to Actions.send, in order
    epochChanges, \* constructor input: the epoch changes gathered, by node
    results,      \* constructor output of two runs on epochChanges, or <<>>
    nodeMsgs,     \* the nodeMsgs object: the admitter of one peer's messages
    returned,     \* what the last call of next() returned (None: nil), or NotCalled
    released,     \* per bucket and kind, the seq_nos next() returned this epoch
    oddities,     \* the oddities the last call of next() recorded, as a bag
    quorums       \* a network config, its quorum sizes and two quorums of its nodes

seqVars == <<seq, actions, panicked, persistLog, sendLog>>

ecVars == <<epochChanges, results>>

msgVars == <<nodeMsgs, returned, released, oddities>>

vars == <<seqVars, ecVars, msgVars, quorums>>

(***************************************************************************)
(* Configuration                                                           *)
(***************************************************************************)

\* pb.NetworkState_Config of the slot: three nodes, so that two of them are
\* an intersection quorum.
networkConfig == [Nodes |-> <<0, 1, 2>>, F |-> 0]

\* pb.StateEvent_InitialParameters: the local node is node 0.
myConfig == [Id |-> 0]

\* A missing value: a nil pointer, an absent map entry.
None == [none |-> TRUE]

Min(S) == CHOOSE x \in S : \A y \in S : x <= y

NodeSet(nc) == {nc.Nodes[i] : i \in 1..Len(nc.Nodes)}

\* Variant: half of n + f, rounded down.
intersectionQuorum_Half(nc) == (Len(nc.Nodes) + nc.F + 1) \div 2

intersectionQuorum(nc) == (Len(nc.Nodes) + nc.F + 2) \div 2

someCorrectQuorum(nc) == nc.F + 1

(***************************************************************************)
(* The sequence state machine                                              *)
(***************************************************************************)

sequenceUninitialized == 0
sequenceAllocated == 1
sequencePendingRequests == 2
sequenceReady == 3
sequencePreprepared == 4
sequencePrepared == 5
sequenceCommitted == 6

\* A nil []byte; as a map key string(nil) is the empty string.
Nil == ""

\* Digests a batch hash can produce, and all keys of the tally maps.
HashDigests == {"d1", "d2"}
DigestKeys == HashDigests \cup {Nil}

\* The requests that can be forwarded to this node.
Acks == {[Digest |-> "r1"], [Digest |-> "r2"]}

\* The slot this model follows.
SlotSeqNo == 1
SlotEpoch == 1

\* Digests peers vote for in Prepare and Commit messages.
VoteDigests == {"d1", "d2"}

\* Bound on the number of votes recorded in the two tally maps together.
MaxVotes == 5

\* Actions: the collector of what an operation hands to the outer loop.
EmptyActions == [Hash |-> <<>>, Send |-> <<>>, Forward |-> <<>>, Persist |-> <<>>]

concat(a, b) ==
    [Hash |-> a.Hash \o b.Hash, Send |-> a.Send \o b.Send,
     Forward |-> a.Forward \o b.Forward, Persist |-> a.Persist \o b.Persist]

send(a, targets, msg) ==
    [a EXCEPT !.Send = Append(@, [Targets |-> targets, Msg |-> msg])]

forwardRequest(a, targets, fr) ==
    [a EXCEPT !.Forward = Append(@, [Targets |-> targets, Ack |-> fr])]

\* persisted.addQEntry / addPEntry: hand the entry to the persister.
addQEntry(qEntry) ==
    [EmptyActions EXCEPT !.Persist = <<[Type |-> "QEntry", Entry |-> qEntry]>>]

addPEntry(pEntry) ==
    [EmptyActions EXCEPT !.Persist = <<[Type |-> "PEntry", Entry |-> pEntry]>>]

\* newSequence
newSequence(owner, epoch, seqNo) ==
    [owner |-> owner, seqNo |-> seqNo, epoch |-> epoch,
     state |-> sequenceUninitialized,
     qEntry |-> <<>>,             \* unset: the empty tuple, else <<entry>>
     batch |-> <<>>,
     outstandingReqs |-> {},
     digest |-> Nil,
     prepares |-> [d \in DigestKeys |-> {}],
     commits |-> [d \in DigestKeys |-> {}]]

\* What a step of the state machine yields: the object and the actions.
Ret(s, a) == [s |-> s, a |-> a, panic |-> FALSE]

\* A panic: the operation aborts before it changes the object.
PanicRet(s) == [s |-> s, a |-> EmptyActions, panic |-> TRUE]

checkRequests(s) ==
    IF Cardinality(s.outstandingReqs) > 0
    THEN s
    ELSE [s EXCEPT !.state = sequenceReady]

RECURSIVE ForwardAll(_, _, _)
ForwardAll(a, batch, i) ==
    IF i > Len(batch) THEN a
    ELSE ForwardAll(forwardRequest(a, networkConfig.Nodes, batch[i]), batch, i + 1)

\* Variant: the Preprepare or Prepare is sent without persisting the QEntry.
prepare_NoPersist(s) ==
    LET qEntry == [SeqNo |-> s.seqNo, Digest |-> s.digest, Requests |-> s.batch]
        s1 == [s EXCEPT !.qEntry = <<qEntry>>, !.state = sequencePreprepared]
    IN  Ret(s1, send(EmptyActions, networkConfig.Nodes,
                     [Type |-> "Prepare", SeqNo |-> s.seqNo, Epoch |-> s.epoch,
                      Digest |-> s.digest]))

\* Variant: the owner announces the slot with a Prepare as the others do.
prepare_OwnerSendsPrepare(s) ==
    LET qEntry == [SeqNo |-> s.seqNo, Digest |-> s.digest, Requests |-> s.batch]
        s1 == [s EXCEPT !.qEntry = <<qEntry>>, !.state = sequencePreprepared]
    IN  Ret(s1, concat(send(EmptyActions, networkConfig.Nodes,
                            [Type |-> "Prepare", SeqNo |-> s.seqNo,
                             Epoch |-> s.epoch, Digest |-> s.digest]),
                       addQEntry(qEntry)))

prepare(s) ==
    LET qEntry == [SeqNo |-> s.seqNo, Digest |-> s.digest, Requests |-> s.batch]
        s1 == [s EXCEPT !.qEntry = <<qEntry>>, !.state = sequencePreprepared]
        acts ==
            IF s.owner = myConfig.Id
            THEN send(ForwardAll(EmptyActions, s.batch, 1), networkConfig.Nodes,
                      [Type |-> "Preprepare", SeqNo |-> s.seqNo, Epoch |-> s.epoch,
                       Batch |-> s.batch])
            ELSE send(EmptyActions, networkConfig.Nodes,
                      [Type |-> "Prepare", SeqNo |-> s.seqNo, Epoch |-> s.epoch,
                       Digest |-> s.digest])
    IN  Ret(s1, concat(acts, addQEntry(qEntry)))

\* Variant: the prepare tally is taken over all digests together.
checkPrepareQuorum_AllDigests(s) ==
    LET agreements == UNION {s.prepares[d] : d \in DigestKeys}
        requiredPrepares == intersectionQuorum(networkConfig)
    IN  IF myConfig.Id \notin agreements
        THEN Ret(s, EmptyActions)
        ELSE IF Cardinality(agreements) < requiredPrepares
        THEN Ret(s, EmptyActions)
        ELSE LET pEntry == [SeqNo |-> s.seqNo, Digest |-> s.digest]
                 acts == send(EmptyActions, networkConfig.Nodes,
                              [Type |-> "Commit", SeqNo |-> s.seqNo,
                               Epoch |-> s.epoch, Digest |-> s.digest])
             IN  Ret([s EXCEPT !.state = sequencePrepared],
                     concat(acts, addPEntry(pEntry)))

checkPrepareQuorum(s) ==
    LET agreements == s.prepares[s.digest]
        requiredPrepares == intersectionQuorum(networkConfig)
    IN  IF myConfig.Id \notin agreements
        THEN Ret(s, EmptyActions)
        ELSE IF Cardinality(agreements) < requiredPrepares
        THEN Ret(s, EmptyActions)
        ELSE LET pEntry == [SeqNo |-> s.seqNo, Digest |-> s.digest]
                 acts == send(EmptyActions, networkConfig.Nodes,
                              [Type |-> "Commit", SeqNo |-> s.seqNo,
                               Epoch |-> s.epoch, Digest |-> s.digest])
             IN  Ret([s EXCEPT !.state = sequencePrepared],
                     concat(acts, addPEntry(pEntry)))

checkCommitQuorum(s) ==
    LET agreements == s.commits[s.digest]
        requiredCommits == intersectionQuorum(networkConfig)
    IN  IF myConfig.Id \notin agreements
        THEN s
        ELSE IF Cardinality(agreements) < requiredCommits
        THEN s
        ELSE [s EXCEPT !.state = sequenceCommitted]

\* Variant: a prepared slot checks the prepare quorum again.
advanceCase_RecheckPrepared(s) ==
    CASE s.state = sequencePendingRequests -> Ret(checkRequests(s), EmptyActions)
      [] s.state = sequenceReady ->
            IF s.digest # Nil \/ Len(s.batch) = 0
            THEN prepare(s)
            ELSE Ret(s, EmptyActions)
      [] s.state \in {sequencePreprepared, sequencePrepared} -> checkPrepareQuorum(s)
      [] OTHER -> Ret(s, EmptyActions)

\* One pass of the switch in advanceState.
advanceCase(s) ==
    CASE s.state = sequencePendingRequests -> Ret(checkRequests(s), EmptyActions)
      [] s.state = sequenceReady ->
            IF s.digest # Nil \/ Len(s.batch) = 0
            THEN prepare(s)
            ELSE Ret(s, EmptyActions)
      [] s.state = sequencePreprepared -> checkPrepareQuorum(s)
      [] s.state = sequencePrepared -> Ret(checkCommitQuorum(s), EmptyActions)
      [] OTHER -> Ret(s, EmptyActions)

\* Variant: the switch is passed once.
advanceLoop_OnePass(s, acts) ==
    LET r == advanceCase(s)
    IN  Ret(r.s, concat(acts, r.a))

RECURSIVE advanceLoop(_, _)
advanceLoop(s, acts) ==
    LET r == advanceCase(s)
        acc == concat(acts, r.a)
    IN  IF r.s.state = s.state THEN Ret(r.s, acc) ELSE advanceLoop(r.s, acc)

advanceState(s) == advanceLoop(s, EmptyActions)

applyPrepareMsg(s, source, digest) ==
    advanceState([s EXCEPT !.prepares[digest] = @ \cup {source}])

applyCommitMsg(s, source, digest) ==
    advanceState([s EXCEPT !.commits[digest] = @ \cup {source}])

\* Variant: the hash result counts as the local node's prepare.
applyBatchHashResult_RecordsSelf(s, digest) ==
    applyPrepareMsg([s EXCEPT !.digest = digest], myConfig.Id, digest)

applyBatchHashResult(s, digest) ==
    applyPrepareMsg([s EXCEPT !.digest = digest], s.owner, digest)

RECURSIVE AckDigestsOf(_, _)
AckDigestsOf(requestAcks, i) ==
    IF i > Len(requestAcks) THEN <<>>
    ELSE <<requestAcks[i].Digest>> \o AckDigestsOf(requestAcks, i + 1)

\* Variant: allocate does not check the state of the slot.
allocate_AnyState(s, requestAcks, outstandingReqs) ==
    LET s1 == [s EXCEPT !.batch = requestAcks, !.outstandingReqs = outstandingReqs]
    IN  IF Len(requestAcks) = 0
        THEN applyBatchHashResult([s1 EXCEPT !.state = sequenceReady], Nil)
        ELSE advanceState([s1 EXCEPT !.state = sequencePendingRequests])

\* Variant: allocate sends the empty batch through PendingRequests like any
\* other batch, where it waits for the outstanding requests.
allocate_NoOpWaits(s, requestAcks, outstandingReqs) ==
    LET s1 == [s EXCEPT !.state = sequenceAllocated, !.batch = requestAcks,
                        !.outstandingReqs = outstandingReqs]
    IN  IF s.state # sequenceUninitialized
        THEN PanicRet(s)
        ELSE LET hash == [EmptyActions EXCEPT !.Hash =
                            IF Len(requestAcks) = 0 THEN <<>>
                            ELSE <<[Data |-> AckDigestsOf(requestAcks, 1),
                                    Origin |-> [Source |-> s.owner, SeqNo |-> s.seqNo,
                                                Epoch |-> s.epoch,
                                                RequestAcks |-> requestAcks]]>>]
                 r == advanceState([s1 EXCEPT !.state = sequencePendingRequests])
             IN  Ret(r.s, concat(hash, r.a))

allocate(s, requestAcks, outstandingReqs) ==
    LET s1 == [s EXCEPT !.state = sequenceAllocated, !.batch = requestAcks,
                        !.outstandingReqs = outstandingReqs]
    IN  IF s.state # sequenceUninitialized
        THEN PanicRet(s)
        ELSE IF Len(requestAcks) = 0
        THEN applyBatchHashResult([s1 EXCEPT !.state = sequenceReady], Nil)
        ELSE LET hash == [EmptyActions EXCEPT !.Hash =
                            <<[Data |-> AckDigestsOf(requestAcks, 1),
                               Origin |-> [Source |-> s.owner, SeqNo |-> s.seqNo,
                                           Epoch |-> s.epoch,
                                           RequestAcks |-> requestAcks]]>>]
                 r == advanceState([s1 EXCEPT !.state = sequencePendingRequests])
             IN  Ret(r.s, concat(hash, r.a))

\* Variant: satisfyOutstanding without the sanity check.
satisfyOutstanding_NoCheck(s, fr) ==
    advanceState([s EXCEPT !.outstandingReqs = @ \ {fr.Digest}])

satisfyOutstanding(s, fr) ==
    IF fr.Digest \notin s.outstandingReqs
    THEN PanicRet(s)
    ELSE advanceState([s EXCEPT !.outstandingReqs = @ \ {fr.Digest}])

(***************************************************************************)
(* Sequence: the operations as actions                                     *)
(***************************************************************************)

Owners == {0, 1}
Batches == {<<>>, <<[Digest |-> "r1"], [Digest |-> "r2"]>>}
OutstandingSets == {{}, {"r1"}}
Sources == NodeSet(networkConfig)

RECURSIVE SumCard(_, _)
SumCard(tally, keys) ==
    IF keys = {} THEN 0
    ELSE LET k == CHOOSE x \in keys : TRUE
         IN  Cardinality(tally[k]) + SumCard(tally, keys \ {k})

VoteCount(s) == SumCard(s.prepares, DigestKeys) + SumCard(s.commits, DigestKeys)

\* The operation returns (or panics); the outer loop receives its actions.
Return(r) ==
    /\ UNCHANGED <<ecVars, msgVars, quorums>>
    /\ seq' = r.s
    /\ actions' = r.a
    /\ panicked' = r.panic
    /\ persistLog' = persistLog \o r.a.Persist
    /\ sendLog' = sendLog \o r.a.Send

Allocate ==
    /\ ~panicked
    /\ \E requestAcks \in Batches, outstandingReqs \in OutstandingSets :
          Return(allocate(seq, requestAcks, outstandingReqs))

SatisfyOutstanding ==
    /\ ~panicked
    /\ \E fr \in Acks : Return(satisfyOutstanding(seq, fr))

ApplyBatchHashResult ==
    /\ ~panicked
    /\ \E digest \in HashDigests :
          Return(applyBatchHashResult(seq, digest))

ApplyPrepareMsg ==
    /\ ~panicked
    /\ \E source \in Sources, digest \in VoteDigests :
          /\ source \in seq.prepares[digest] \/ VoteCount(seq) < MaxVotes
          /\ Return(applyPrepareMsg(seq, source, digest))

ApplyCommitMsg ==
    /\ ~panicked
    /\ \E source \in Sources, digest \in VoteDigests :
          /\ source \in seq.commits[digest] \/ VoteCount(seq) < MaxVotes
          /\ Return(applyCommitMsg(seq, source, digest))

(***************************************************************************)
(* Sequence: properties                                                    *)
(***************************************************************************)

\* A tally that lets the slot advance: it holds the local node and at least
\* intersection_quorum nodes.
IsQuorumWithMe(agreements) ==
    /\ myConfig.Id \in agreements
    /\ Cardinality(agreements) >= (Len(networkConfig.Nodes) + networkConfig.F + 2) \div 2

SendsOf(sends, types) ==
    {i \in 1..Len(sends) : sends[i].Msg.Type \in types}

PersistsOf(persists, type) ==
    {i \in 1..Len(persists) : persists[i].Type = type}

\* C1: the slot enters Prepared (or passes through it) only in a step after
\* which the prepare tally under its own digest holds the local node and an
\* intersection quorum, and enters Committed only in a step after which the
\* commit tally under its own digest does; tallies under other digests do
\* not count.
C1_QuorumSafety ==
    [][/\ (seq.state < sequencePrepared /\ seq'.state >= sequencePrepared)
            => IsQuorumWithMe(seq'.prepares[seq'.digest])
       /\ (seq.state < sequenceCommitted /\ seq'.state = sequenceCommitted)
            => IsQuorumWithMe(seq'.commits[seq'.digest])]_vars

\* The slot is committed while another digest has a prepare vote and a
\* commit vote that were not counted.
C1_Witness ==
    /\ seq.state = sequenceCommitted
    /\ \E d \in DigestKeys \ {seq.digest} :
          seq.prepares[d] # {} /\ seq.commits[d] # {}

\* C2: no step that does not abort lowers the state of the slot, and a
\* committed slot stays committed.
C2_MonotoneState ==
    [][/\ seq'.state >= seq.state
       /\ seq.state = sequenceCommitted => seq'.state = sequenceCommitted]_vars

\* The slot went all the way to Committed, and an operation on it has run
\* since (allocate on it panics).
C2_Witness == seq.state = sequenceCommitted /\ panicked

\* C3: in the actions an operation returns, a Preprepare or Prepare send for
\* seq_no s comes with a QEntry persist for s, and a Commit send for s with a
\* PEntry persist for s.
C3_PersistBeforeSend ==
    \A i \in 1..Len(actions.Send) :
        LET m == actions.Send[i].Msg
        IN  /\ m.Type \in {"Preprepare", "Prepare"} =>
                \E j \in PersistsOf(actions.Persist, "QEntry") :
                    actions.Persist[j].Entry.SeqNo = m.SeqNo
            /\ m.Type = "Commit" =>
                \E j \in PersistsOf(actions.Persist, "PEntry") :
                    actions.Persist[j].Entry.SeqNo = m.SeqNo

\* One operation returned both the Prepare (or Preprepare) and the Commit.
C3_Witness ==
    /\ SendsOf(actions.Send, {"Preprepare", "Prepare"}) # {}
    /\ SendsOf(actions.Send, {"Commit"}) # {}

\* C4: over the life of the slot at most one QEntry and one PEntry are
\* persisted and at most one Preprepare-or-Prepare and one Commit are sent.
C4_AtMostOneEntry ==
    /\ Cardinality(PersistsOf(persistLog, "QEntry")) <= 1
    /\ Cardinality(PersistsOf(persistLog, "PEntry")) <= 1
    /\ Cardinality(SendsOf(sendLog, {"Preprepare", "Prepare"})) <= 1
    /\ Cardinality(SendsOf(sendLog, {"Commit"})) <= 1

\* Both entries were persisted, and the hash result came a second time with
\* another digest after the QEntry was written.
C4_Witness ==
    /\ Cardinality(PersistsOf(persistLog, "QEntry")) = 1
    /\ Cardinality(PersistsOf(persistLog, "PEntry")) = 1
    /\ seq.state = sequenceCommitted
    /\ seq.qEntry[1].Digest # seq.digest

C18_OwnPrepare ==
    [][seq'.digest # seq.digest =>
          myConfig.Id \in seq'.prepares[seq'.digest]]_vars

\* C18 amended: the step in which the hash result stores a new digest adds
\* the owner of the slot, and no other node, to prepares[digest], and
\* changes no other tally: it has the effect of the owner's prepare, which
\* is this node's own only where this node owns the slot.
C18_OwnerPrepare ==
    [][seq'.digest # seq.digest =>
          /\ seq'.prepares =
                [seq.prepares EXCEPT ![seq'.digest] = @ \cup {seq.owner}]
          /\ seq'.commits = seq.commits]_vars

\* On a slot this node does not own the hash result was stored, and this
\* node is not in the prepare tally of the digest while the owner is.
C18_Witness ==
    /\ seq.owner # myConfig.Id
    /\ seq.digest \in HashDigests
    /\ seq.owner \in seq.prepares[seq.digest]
    /\ myConfig.Id \notin seq.prepares[seq.digest]

\* C19: the step that takes the slot from before Preprepared to Preprepared
\* or beyond persists the QEntry (seq_no, digest, batch) and emits, on the
\* owner, one Forward per request ack of the batch and one
\* Preprepare(seq_no, epoch, batch), all to all nodes, and no Prepare; on
\* any other node one Prepare(seq_no, epoch, digest) to all nodes and no
\* Preprepare and no Forward.
C19_PrepareEmission ==
    [][(seq.state < sequencePreprepared /\ seq'.state >= sequencePreprepared) =>
          LET pp == SendsOf(actions'.Send, {"Preprepare"})
              p == SendsOf(actions'.Send, {"Prepare"})
              q == PersistsOf(actions'.Persist, "QEntry")
          IN  /\ Cardinality(q) = 1
              /\ \A j \in q :
                    actions'.Persist[j].Entry =
                        [SeqNo |-> seq'.seqNo, Digest |-> seq'.digest,
                         Requests |-> seq'.batch]
              /\ seq'.owner = myConfig.Id =>
                    /\ p = {}
                    /\ Cardinality(pp) = 1
                    /\ \A i \in pp :
                          actions'.Send[i] =
                              [Targets |-> networkConfig.Nodes,
                               Msg |-> [Type |-> "Preprepare", SeqNo |-> seq'.seqNo,
                                        Epoch |-> seq'.epoch, Batch |-> seq'.batch]]
                    /\ actions'.Forward =
                          [i \in 1..Len(seq'.batch) |->
                              [Targets |-> networkConfig.Nodes, Ack |-> seq'.batch[i]]]
              /\ seq'.owner # myConfig.Id =>
                    /\ pp = {}
                    /\ actions'.Forward = <<>>
                    /\ Cardinality(p) = 1
                    /\ \A i \in p :
                          actions'.Send[i] =
                              [Targets |-> networkConfig.Nodes,
                               Msg |-> [Type |-> "Prepare", SeqNo |-> seq'.seqNo,
                                        Epoch |-> seq'.epoch, Digest |-> seq'.digest]]]_vars

\* The owner's operation returned the Preprepare with a Forward for each of
\* the two request acks of the batch.
C19_Witness ==
    /\ seq.owner = myConfig.Id
    /\ SendsOf(actions.Send, {"Preprepare"}) # {}
    /\ Len(actions.Forward) = 2

\* C20: after an operation has returned no drive step is enabled: a slot in
\* PendingRequests waits for a request; one in Ready has no digest and a
\* non-empty batch; one in Preprepared lacks this node or the quorum in
\* prepares[digest]; one in Prepared lacks this node or the quorum in
\* commits[digest].
C20_DriveFixpoint ==
    /\ seq.state = sequencePendingRequests => seq.outstandingReqs # {}
    /\ seq.state = sequenceReady => seq.digest = Nil /\ Len(seq.batch) > 0
    /\ seq.state = sequencePreprepared => ~IsQuorumWithMe(seq.prepares[seq.digest])
    /\ seq.state = sequencePrepared => ~IsQuorumWithMe(seq.commits[seq.digest])

\* One operation took the slot from before Preprepared to Committed: it
\* returned the persist of the QEntry and of the PEntry, the tallies having
\* been filled before.
C20_Witness ==
    /\ seq.state = sequenceCommitted
    /\ PersistsOf(actions.Persist, "QEntry") # {}
    /\ PersistsOf(actions.Persist, "PEntry") # {}

C23_EntriesAgree ==
    seq'.qEntry # <<>> =>
        LET digest == seq'.qEntry[1].Digest
        IN  /\ \A j \in PersistsOf(persistLog', "PEntry") :
                  persistLog'[j].Entry.Digest = digest
            /\ \A i \in SendsOf(sendLog', {"Commit"}) :
                  sendLog'[i].Msg.Digest = digest
            /\ (seq.state < sequenceCommitted /\ seq'.state = sequenceCommitted)
                  => IsQuorumWithMe(seq'.commits[digest])

\* C23: once the slot is Preprepared its digest is fixed: after any
\* operation, a second hash result with another digest included, the digest
\* of the slot, of the PEntry persisted and of the Commit sent is the digest
\* of the QEntry persisted, and the commit quorum is counted in the tally of
\* that digest.
C23_DigestFixed ==
    [][/\ seq'.qEntry # <<>> => seq'.digest = seq'.qEntry[1].Digest
       /\ C23_EntriesAgree]_vars

\* The consequences alone, without the digest of the slot itself.
C23_EntriesFixed == [][C23_EntriesAgree]_vars

(***************************************************************************)
(* The epoch-change constructor                                            *)
(***************************************************************************)

\* The pb.NetworkState_Config handed to constructNewEpochConfig.
config ==
    [Nodes |-> <<0, 1, 2, 3>>, F |-> 1, CheckpointInterval |-> 1,
     MaxEpochLength |-> 10]

newLeaders == <<0, 1>>

\* parsedEpochChange: the epoch change and what parsing derives from it; the
\* low watermark is the lowest checkpoint of the epoch change.
ParsedEpochChange(newEpoch, cps, pSet, qSet) ==
    [underlying |-> [NewEpoch |-> newEpoch, Checkpoints |-> cps],
     lowWatermark |-> Min({cps[i].SeqNo : i \in 1..Len(cps)}),
     pSet |-> pSet, qSet |-> qSet]

\* The checkpoint keys the loop over the epoch changes groups.
checkpointKeys(ecs) ==
    UNION {{ecs[n].underlying.Checkpoints[i] :
                i \in 1..Len(ecs[n].underlying.Checkpoints)} : n \in DOMAIN ecs}

\* checkpoints[key]: one supporter per checkpoint entry that has the key.
supporters(ecs, key) ==
    UNION {{<<n, i>> : i \in {j \in 1..Len(ecs[n].underlying.Checkpoints) :
                                    ecs[n].underlying.Checkpoints[j] = key}} :
            n \in DOMAIN ecs}

nodesWithLowerWatermark(ecs, key) ==
    Cardinality({n \in DOMAIN ecs : ecs[n].lowWatermark <= key.SeqNo})

\* What the checkpoint loop yields when it panics.
PanicKey == [panic |-> TRUE]

\* Variant: the checkpoint loop keeps the candidate with the lower seqNo.
RECURSIVE maxCheckpointLoop_KeepsLower(_, _, _, _, _)
maxCheckpointLoop_KeepsLower(cfg, ecs, cpOrder, i, maxCheckpoint) ==
    IF i > Len(cpOrder) \/ maxCheckpoint = PanicKey THEN maxCheckpoint
    ELSE LET key == cpOrder[i]
             continue(m) == maxCheckpointLoop_KeepsLower(cfg, ecs, cpOrder, i + 1, m)
         IN  IF Cardinality(supporters(ecs, key)) < someCorrectQuorum(cfg)
             THEN continue(maxCheckpoint)
             ELSE IF nodesWithLowerWatermark(ecs, key) < intersectionQuorum(cfg)
             THEN continue(maxCheckpoint)
             ELSE IF maxCheckpoint = None
             THEN continue(key)
             ELSE IF maxCheckpoint.SeqNo < key.SeqNo
             THEN continue(maxCheckpoint)
             ELSE IF maxCheckpoint.SeqNo = key.SeqNo
             THEN PanicKey
             ELSE continue(key)

\* The loop over the checkpoints map, visiting the keys in the order cpOrder.
\* Yields the last value of maxCheckpoint, or PanicKey.
RECURSIVE maxCheckpointLoop(_, _, _, _, _)
maxCheckpointLoop(cfg, ecs, cpOrder, i, maxCheckpoint) ==
    IF i > Len(cpOrder) \/ maxCheckpoint = PanicKey THEN maxCheckpoint
    ELSE LET key == cpOrder[i]
             continue(m) == maxCheckpointLoop(cfg, ecs, cpOrder, i + 1, m)
         IN  IF Cardinality(supporters(ecs, key)) < someCorrectQuorum(cfg)
             THEN continue(maxCheckpoint)
             ELSE IF nodesWithLowerWatermark(ecs, key) < intersectionQuorum(cfg)
             THEN continue(maxCheckpoint)
             ELSE IF maxCheckpoint = None
             THEN continue(key)
             ELSE IF maxCheckpoint.SeqNo > key.SeqNo
             THEN continue(maxCheckpoint)
             ELSE IF maxCheckpoint.SeqNo = key.SeqNo
             THEN PanicKey
             ELSE continue(key)

\* Variant: an epoch change whose low watermark is at or above seqNo counts.
a1Count_CountsAbove(ecs, seqNo, entry) ==
    Cardinality({n \in DOMAIN ecs :
        \/ ecs[n].lowWatermark >= seqNo
        \/ seqNo \notin DOMAIN ecs[n].pSet
        \/ ecs[n].pSet[seqNo].Epoch < entry.Epoch
        \/ /\ ~(ecs[n].pSet[seqNo].Epoch > entry.Epoch)
           /\ ecs[n].pSet[seqNo].Digest = entry.Digest})

a1Count(ecs, seqNo, entry) ==
    Cardinality({n \in DOMAIN ecs :
        /\ ~(ecs[n].lowWatermark >= seqNo)
        /\ \/ seqNo \notin DOMAIN ecs[n].pSet
           \/ ecs[n].pSet[seqNo].Epoch < entry.Epoch
           \/ /\ ~(ecs[n].pSet[seqNo].Epoch > entry.Epoch)
              /\ ecs[n].pSet[seqNo].Digest = entry.Digest})

a2Count(ecs, seqNo, entry) ==
    Cardinality({n \in DOMAIN ecs :
        /\ seqNo \in DOMAIN ecs[n].qSet
        /\ \E epoch \in DOMAIN ecs[n].qSet[seqNo] :
              /\ ~(epoch < entry.Epoch)
              /\ ecs[n].qSet[seqNo][epoch] = entry.Digest})

\* Variant: the B count ignores the low watermark.
bCount_AnyWatermark(ecs, seqNo) ==
    Cardinality({n \in DOMAIN ecs : seqNo \notin DOMAIN ecs[n].pSet})

bCount(ecs, seqNo) ==
    Cardinality({n \in DOMAIN ecs :
        /\ ~(ecs[n].lowWatermark >= seqNo)
        /\ seqNo \notin DOMAIN ecs[n].pSet})

\* Variant: an entry is selected on the A1 count alone.
RECURSIVE selectedEntry_NoA2(_, _, _, _)
selectedEntry_NoA2(cfg, ecs, seqNo, i) ==
    IF i > Len(cfg.Nodes) THEN None
    ELSE LET nodeID == cfg.Nodes[i]
             continue == selectedEntry_NoA2(cfg, ecs, seqNo, i + 1)
         IN  IF nodeID \notin DOMAIN ecs THEN continue
             ELSE IF seqNo \notin DOMAIN ecs[nodeID].pSet THEN continue
             ELSE LET entry == ecs[nodeID].pSet[seqNo]
                  IN  IF a1Count(ecs, seqNo, entry) < intersectionQuorum(cfg)
                      THEN continue
                      ELSE entry

\* The loop over config.Nodes for one seqNo: the selected entry, or None.
RECURSIVE selectedEntry(_, _, _, _)
selectedEntry(cfg, ecs, seqNo, i) ==
    IF i > Len(cfg.Nodes) THEN None
    ELSE LET nodeID == cfg.Nodes[i]
             continue == selectedEntry(cfg, ecs, seqNo, i + 1)
         IN  IF nodeID \notin DOMAIN ecs THEN continue
             ELSE IF seqNo \notin DOMAIN ecs[nodeID].pSet THEN continue
             ELSE LET entry == ecs[nodeID].pSet[seqNo]
                  IN  IF a1Count(ecs, seqNo, entry) < intersectionQuorum(cfg)
                      THEN continue
                      ELSE IF a2Count(ecs, seqNo, entry) < someCorrectQuorum(cfg)
                      THEN continue
                      ELSE entry

\* The loop over the slots of FinalPreprepares, from offset seqNoOffset on:
\* the slots filled (Nil where unset), or ok = FALSE where the function
\* returns nil.
RECURSIVE finalPreprepares(_, _, _, _, _)
finalPreprepares(cfg, ecs, maxCheckpoint, seqNoOffset, filled) ==
    IF seqNoOffset >= 2 * cfg.CheckpointInterval THEN [ok |-> TRUE, fp |-> filled]
    ELSE LET seqNo == seqNoOffset + maxCheckpoint.SeqNo + 1
             entry == selectedEntry(cfg, ecs, seqNo, 1)
         IN  IF entry # None
             THEN finalPreprepares(cfg, ecs, maxCheckpoint, seqNoOffset + 1,
                                   Append(filled, entry.Digest))
             ELSE IF bCount(ecs, seqNo) < intersectionQuorum(cfg)
             THEN [ok |-> FALSE, fp |-> <<>>]
             ELSE finalPreprepares(cfg, ecs, maxCheckpoint, seqNoOffset + 1,
                                   Append(filled, Nil))

\* The values the loop over the epochChanges map can leave in
\* newEpochNumber: that of the epoch change it visits last.
newEpochNumbers(ecs) ==
    IF DOMAIN ecs = {} THEN {0}
    ELSE {ecs[lastEC].underlying.NewEpoch : lastEC \in DOMAIN ecs}

RECURSIVE Perms(_)
Perms(S) ==
    IF S = {} THEN {<<>>}
    ELSE UNION {{<<x>> \o p : p \in Perms(S \ {x})} : x \in S}

\* The values the loop over the checkpoints map can leave in maxCheckpoint,
\* over the orders in which it can visit the keys.
maxCheckpoints(cfg, ecs) ==
    {maxCheckpointLoop(cfg, ecs, cpOrder, 1, None) :
        cpOrder \in Perms(checkpointKeys(ecs))}

\* constructNewEpochConfig from the end of its two loops over maps, which
\* left newEpochNumber and maxCheckpoint.
constructNewEpochConfig(cfg, leaders, ecs, newEpochNumber, maxCheckpoint) ==
    IF maxCheckpoint = PanicKey THEN [kind |-> "panic"]
    ELSE IF maxCheckpoint = None THEN [kind |-> "nil"]
    ELSE LET r == finalPreprepares(cfg, ecs, maxCheckpoint, 0, <<>>)
             fp == r.fp
             anySelected == \E i \in 1..Len(fp) : fp[i] # Nil
         IN  IF ~r.ok THEN [kind |-> "nil"]
             ELSE [kind |-> "config",
                   Config |-> [Number |-> newEpochNumber,
                               Leaders |-> leaders,
                               PlannedExpiration |->
                                   maxCheckpoint.SeqNo + cfg.MaxEpochLength],
                   StartingCheckpoint |->
                       [SeqNo |-> maxCheckpoint.SeqNo,
                        Value |-> maxCheckpoint.Value],
                   FinalPreprepares |-> IF anySelected THEN fp ELSE <<>>]

(***************************************************************************)
(* Constructor: the inputs and the runs                                    *)
(***************************************************************************)

\* The epoch all the gathered epoch changes are for.
NewEpochNo == 2

\* The checkpoint lists an epoch change reports.
CheckpointLists ==
    {<<[SeqNo |-> 0, Value |-> "a"], [SeqNo |-> 1, Value |-> "a"]>>,
     <<[SeqNo |-> 0, Value |-> "b"]>>,
     <<[SeqNo |-> 1, Value |-> "a"]>>}

\* The seqNo the reported pSet and qSet entries are about.
EvidenceSeqNo == 1

\* The (pSet, qSet) pairs an epoch change reports.
Evidence ==
    LET only(v) == [s \in {EvidenceSeqNo} |-> v]
    IN  {[p |-> <<>>, q |-> <<>>],
         [p |-> <<>>, q |-> only([e \in {1, 2} |-> IF e = 1 THEN "x" ELSE "y"])],
         [p |-> only([Epoch |-> 1, Digest |-> "x"]), q |-> only([e \in {1} |-> "x"])],
         [p |-> only([Epoch |-> 1, Digest |-> "y"]), q |-> only([e \in {1} |-> "y"])],
         [p |-> only([Epoch |-> 2, Digest |-> "y"]), q |-> only([e \in {2} |-> "y"])]}

\* What a run of the constructor can return on ecs.
Outcomes(ecs) ==
    {constructNewEpochConfig(config, newLeaders, ecs, newEpochNumber, maxCheckpoint) :
        newEpochNumber \in newEpochNumbers(ecs),
        maxCheckpoint \in maxCheckpoints(config, ecs)}

\* A node's epoch change arrives and joins the input.
AddEpochChange ==
    /\ \E n \in (NodeSet(config) \ DOMAIN epochChanges),
          cps \in CheckpointLists, ev \in Evidence :
          epochChanges' =
              [m \in DOMAIN epochChanges \cup {n} |->
                  IF m = n THEN ParsedEpochChange(NewEpochNo, cps, ev.p, ev.q)
                  ELSE epochChanges[m]]
    /\ results' = <<>>
    /\ UNCHANGED <<seqVars, msgVars, quorums>>

\* Two runs of constructNewEpochConfig on the same input.
Construct ==
    /\ results = <<>>
    /\ LET outcomes == Outcomes(epochChanges)
       IN  \E r1 \in outcomes, r2 \in outcomes : results' = <<r1, r2>>
    /\ UNCHANGED <<epochChanges, seqVars, msgVars, quorums>>

(***************************************************************************)
(* Constructor: properties                                                 *)
(***************************************************************************)

Runs == {1, 2}

\* C8: two runs of the constructor on the same (config, new_leaders,
\* epoch_changes) yield the same outcome: the same choice between abort, null
\* and a config, and the same config.
C8_Deterministic == results # <<>> => results[1] = results[2]

\* The epoch changes that report the checkpoint key.
Reporters(key) ==
    {n \in DOMAIN epochChanges :
        \E i \in 1..Len(epochChanges[n].underlying.Checkpoints) :
            epochChanges[n].underlying.Checkpoints[i] = key}

\* Admissible: reported by some_correct_quorum epoch changes, and
\* intersection_quorum epoch changes have low_watermark <= seq_no.
Admissible(key) ==
    /\ Cardinality(Reporters(key)) >= config.F + 1
    /\ Cardinality({n \in DOMAIN epochChanges :
                       epochChanges[n].lowWatermark <= key.SeqNo})
          >= (Len(config.Nodes) + config.F + 2) \div 2

AdmissibleKeys == {key \in checkpointKeys(epochChanges) : Admissible(key)}

\* C9: with no admissible checkpoint key the constructor returns null; a
\* config it returns starts at an admissible key, and no admissible key has a
\* greater seq_no.
C9_StartingCheckpoint ==
    results # <<>> =>
        \A r \in Runs :
            /\ AdmissibleKeys = {} => results[r].kind = "nil"
            /\ results[r].kind = "config" =>
                  /\ results[r].StartingCheckpoint \in AdmissibleKeys
                  /\ \A key \in AdmissibleKeys :
                        key.SeqNo <= results[r].StartingCheckpoint.SeqNo

\* A config was returned where admissible keys of two seq_nos competed.
C9_Witness ==
    /\ results # <<>>
    /\ results[1].kind = "config"
    /\ \E k1, k2 \in AdmissibleKeys : k1.SeqNo < k2.SeqNo

\* Epoch change ec does not contradict entry at seqNo: its log reaches back
\* before seqNo and it has no p_set entry there, or one of a lower epoch, or
\* the same one.
A1Agrees(ec, seqNo, entry) ==
    /\ ec.lowWatermark < seqNo
    /\ \/ seqNo \notin DOMAIN ec.pSet
       \/ ec.pSet[seqNo].Epoch < entry.Epoch
       \/ ec.pSet[seqNo] = entry

\* Epoch change ec preprepared the digest of entry at seqNo in the epoch of
\* entry or later.
A2Agrees(ec, seqNo, entry) ==
    /\ seqNo \in DOMAIN ec.qSet
    /\ \E e \in DOMAIN ec.qSet[seqNo] :
          e >= entry.Epoch /\ ec.qSet[seqNo][e] = entry.Digest

\* The positions in config.nodes of the peers whose p_set entry at seqNo
\* reaches the A1 and the A2 threshold.
Passing(seqNo) ==
    {j \in 1..Len(config.Nodes) :
        /\ config.Nodes[j] \in DOMAIN epochChanges
        /\ seqNo \in DOMAIN epochChanges[config.Nodes[j]].pSet
        /\ LET entry == epochChanges[config.Nodes[j]].pSet[seqNo]
           IN  /\ Cardinality({n \in DOMAIN epochChanges :
                        A1Agrees(epochChanges[n], seqNo, entry)})
                     >= (Len(config.Nodes) + config.F + 2) \div 2
               /\ Cardinality({n \in DOMAIN epochChanges :
                        A2Agrees(epochChanges[n], seqNo, entry)})
                     >= config.F + 1}

\* C10: a slot of final_preprepares that is set holds the digest of the
\* p_set entry of the first peer, in config.nodes order, whose entry reaches
\* the A1 and the A2 threshold.
C10_FinalPreprepares ==
    results # <<>> =>
        \A r \in Runs :
            results[r].kind = "config" =>
                \A i \in 1..Len(results[r].FinalPreprepares) :
                    LET seqNo == results[r].StartingCheckpoint.SeqNo + i
                    IN  results[r].FinalPreprepares[i] # Nil =>
                            /\ Passing(seqNo) # {}
                            /\ results[r].FinalPreprepares[i] =
                                  epochChanges[config.Nodes[Min(Passing(seqNo))]]
                                      .pSet[seqNo].Digest

\* A slot was filled where two peers with different digests both reach the
\* thresholds, so that the order of config.nodes decides.
C10_Witness ==
    /\ results # <<>>
    /\ results[1].kind = "config"
    /\ \E i \in 1..Len(results[1].FinalPreprepares) :
          LET seqNo == results[1].StartingCheckpoint.SeqNo + i
          IN  /\ results[1].FinalPreprepares[i] # Nil
              /\ \E j, k \in Passing(seqNo) :
                    epochChanges[config.Nodes[j]].pSet[seqNo].Digest #
                    epochChanges[config.Nodes[k]].pSet[seqNo].Digest


\* Two admissible checkpoint keys share a seq_no and differ in value.
ConflictingAdmissible ==
    \E k1, k2 \in AdmissibleKeys : k1.SeqNo = k2.SeqNo /\ k1.Value # k2.Value

\* C11: when two admissible checkpoint keys have the same seq_no and
\* different values, every run of the constructor aborts; none returns a
\* config or null, whatever other keys there are and whatever the order in
\* which the keys are visited.
C11_ConflictAborts ==
    (results # <<>> /\ ConflictingAdmissible) =>
        \A r \in Runs : results[r].kind = "panic"

\* Epoch change ec counts for entry at seqNo as spec section 4.4 words the A1
\* count: also when its low watermark is at or above seqNo.
A1AgreesOrAbove(ec, seqNo, entry) ==
    \/ ec.lowWatermark >= seqNo
    \/ seqNo \notin DOMAIN ec.pSet
    \/ ec.pSet[seqNo].Epoch < entry.Epoch
    \/ ec.pSet[seqNo] = entry

\* The p_set entries the constructor can take as candidates, with their
\* seq_no.
Candidates ==
    UNION {{[seqNo |-> s, entry |-> epochChanges[n].pSet[s]] :
                s \in DOMAIN epochChanges[n].pSet} : n \in DOMAIN epochChanges}

\* C16 as stated: the A1 count of a candidate is the number of epoch changes
\* with low_watermark >= seq_no, or no p_set[seq_no], or one of a lower
\* epoch, or the same one; the candidate passes A1 iff it reaches
\* intersection_quorum.
C16_A1CountsAbove ==
    results # <<>> =>
        \A c \in Candidates :
            a1Count(epochChanges, c.seqNo, c.entry) =
                Cardinality({n \in DOMAIN epochChanges :
                    A1AgreesOrAbove(epochChanges[n], c.seqNo, c.entry)})

\* C16 amended: the A1 count of a candidate is the number of epoch changes
\* with low_watermark < seq_no that have no p_set[seq_no], or one of a lower
\* epoch, or the same one; an epoch change with low_watermark >= seq_no is
\* not counted. A constructor run that found no candidate passing A1 and A2
\* by this count, and no quorum for B, returns null.
C16_A1CountsBelow ==
    results # <<>> =>
        /\ \A c \in Candidates :
              a1Count(epochChanges, c.seqNo, c.entry) =
                  Cardinality({n \in DOMAIN epochChanges :
                      A1Agrees(epochChanges[n], c.seqNo, c.entry)})
        /\ \A r \in Runs :
              results[r].kind = "config" =>
                  \A i \in 1..Len(results[r].FinalPreprepares) :
                      results[r].FinalPreprepares[i] # Nil <=>
                          Passing(results[r].StartingCheckpoint.SeqNo + i) # {}

\* The constructor ran where a candidate reaches intersection_quorum only
\* when an epoch change with low_watermark >= seq_no is counted, and returned
\* null although a checkpoint key was admissible.
C16_Witness ==
    /\ results # <<>>
    /\ results[1].kind = "nil"
    /\ AdmissibleKeys # {}
    /\ \E c \in Candidates :
          /\ Cardinality({n \in DOMAIN epochChanges :
                 A1AgreesOrAbove(epochChanges[n], c.seqNo, c.entry)})
                >= (Len(config.Nodes) + config.F + 2) \div 2
          /\ Cardinality({n \in DOMAIN epochChanges :
                 A1Agrees(epochChanges[n], c.seqNo, c.entry)})
                < (Len(config.Nodes) + config.F + 2) \div 2

\* Condition B at seqNo: intersection_quorum epoch changes have
\* low_watermark < seqNo and no p_set[seqNo].
BHolds(seqNo) ==
    Cardinality({n \in DOMAIN epochChanges :
        /\ epochChanges[n].lowWatermark < seqNo
        /\ seqNo \notin DOMAIN epochChanges[n].pSet})
      >= (Len(config.Nodes) + config.F + 2) \div 2

\* The seq_nos of the window after the checkpoint key.
Window(key) == (key.SeqNo + 1)..(key.SeqNo + 2 * config.CheckpointInterval)

\* The admissible keys of the greatest seq_no.
MaxAdmissibleKeys ==
    {key \in AdmissibleKeys : \A k \in AdmissibleKeys : k.SeqNo <= key.SeqNo}

\* C17: in a config returned, every slot of the window where no candidate
\* satisfies A satisfies B and is left null; final_preprepares is empty if
\* no slot was filled by A and has 2 * checkpoint_interval slots otherwise.
\* The constructor returns null, though a key is admissible, exactly when
\* some slot of the window satisfies neither A nor B.
C17_ConditionB ==
    results # <<>> =>
        \A r \in Runs :
            /\ results[r].kind = "config" =>
                  LET w == Window(results[r].StartingCheckpoint)
                      fp == results[r].FinalPreprepares
                  IN  /\ \A s \in w : Passing(s) = {} => BHolds(s)
                      /\ (\A s \in w : Passing(s) = {}) => fp = <<>>
                      /\ (\E s \in w : Passing(s) # {}) =>
                            /\ Len(fp) = 2 * config.CheckpointInterval
                            /\ \A i \in 1..Len(fp) :
                                  fp[i] = Nil <=>
                                     Passing(results[r].StartingCheckpoint.SeqNo + i) = {}
            /\ (results[r].kind = "nil" /\ AdmissibleKeys # {}) =>
                  \E key \in MaxAdmissibleKeys :
                      \E s \in Window(key) : Passing(s) = {} /\ ~BHolds(s)
            /\ (\A key \in MaxAdmissibleKeys :
                   \E s \in Window(key) : Passing(s) = {} /\ ~BHolds(s)) =>
                  results[r].kind # "config"

\* A config was returned with one slot filled by A and one left null by B,
\* at a seq_no where an epoch change has a low watermark at or above it.
C17_Witness ==
    /\ results # <<>>
    /\ results[1].kind = "config"
    /\ Len(results[1].FinalPreprepares) = 2 * config.CheckpointInterval
    /\ \E i \in 1..Len(results[1].FinalPreprepares) :
          results[1].FinalPreprepares[i] = Nil
    /\ \E n \in DOMAIN epochChanges :
          epochChanges[n].lowWatermark > results[1].StartingCheckpoint.SeqNo

(***************************************************************************)
(* The per-peer message admitter                                           *)
(***************************************************************************)

\* applyable
past == 0
current == 1
future == 2
invalid == 3

\* The peer whose messages the admitter buffers, and the other leader.
PeerID == 1
OtherID == 0

\* epochConfig: bucket 0 is led by the peer, bucket 1 is not.
EpochConfig(number) ==
    [number |-> number, checkpointInterval |-> 2,
     buckets |-> [b \in {0, 1} |-> IF b = 0 THEN PeerID ELSE OtherID]]

\* Bounds of the messages the peer sends and of the buffer that holds them.
MaxSeqNo == 2
MaxEpoch == 2
MaxBuffer == 2

FirstEpoch == 1

newEpochMsgs(nodeID, epochConfig) ==
    [epochConfig |-> epochConfig,
     next |-> [bucketID \in DOMAIN epochConfig.buckets |->
                  [leader |-> nodeID = epochConfig.buckets[bucketID],
                   prepare |-> 1, commit |-> 1]]]

newNodeMsgs(nodeID, epochConfig) ==
    [id |-> nodeID,
     epochMsgs |-> newEpochMsgs(nodeID, epochConfig),
     nextCheckpoint |-> epochConfig.checkpointInterval,
     buffer |-> EmptyBag]

newEpoch(n, epochConfig) ==
    [n EXCEPT !.epochMsgs = newEpochMsgs(n.id, epochConfig)]

ingest(n, outerMsg) ==
    [n EXCEPT !.buffer = @ (+) SetToBag({outerMsg})]

\* What classifying a message yields: the object and the class.
Class(n, a) == [n |-> n, applyable |-> a]

processPreprepare(n, msg) ==
    IF msg.Bucket \notin DOMAIN n.epochMsgs.next THEN Class(n, invalid)
    ELSE LET next == n.epochMsgs.next[msg.Bucket]
         IN  CASE ~next.leader -> Class(n, invalid)
               [] next.leader /\ next.prepare > msg.SeqNo -> Class(n, past)
               [] next.leader /\ next.prepare = msg.SeqNo ->
                    Class([n EXCEPT !.epochMsgs.next[msg.Bucket].prepare = msg.SeqNo + 1],
                          current)
               [] OTHER -> Class(n, future)

\* processPrepare taking a Prepare beyond the cursor as current.
processPrepare_AcceptsFuture(n, msg) ==
    IF msg.Bucket \notin DOMAIN n.epochMsgs.next THEN Class(n, invalid)
    ELSE LET next == n.epochMsgs.next[msg.Bucket]
         IN  CASE next.leader -> Class(n, invalid)
               [] ~next.leader /\ next.prepare > msg.SeqNo -> Class(n, past)
               [] OTHER ->
                    Class([n EXCEPT !.epochMsgs.next[msg.Bucket].prepare = msg.SeqNo + 1],
                          current)

processPrepare(n, msg) ==
    IF msg.Bucket \notin DOMAIN n.epochMsgs.next THEN Class(n, invalid)
    ELSE LET next == n.epochMsgs.next[msg.Bucket]
         IN  CASE next.leader -> Class(n, invalid)
               [] ~next.leader /\ next.prepare > msg.SeqNo -> Class(n, past)
               [] ~next.leader /\ next.prepare = msg.SeqNo ->
                    Class([n EXCEPT !.epochMsgs.next[msg.Bucket].prepare = msg.SeqNo + 1],
                          current)
               [] OTHER -> Class(n, future)

\* Variant: a Commit at the cursor is current whatever the prepare cursor.
processCommit_NoPrepareCheck(n, msg) ==
    IF msg.Bucket \notin DOMAIN n.epochMsgs.next THEN Class(n, invalid)
    ELSE LET next == n.epochMsgs.next[msg.Bucket]
         IN  CASE next.commit > msg.SeqNo -> Class(n, past)
               [] next.commit = msg.SeqNo ->
                    Class([n EXCEPT !.epochMsgs.next[msg.Bucket].commit = msg.SeqNo + 1],
                          current)
               [] OTHER -> Class(n, future)

processCommit(n, msg) ==
    IF msg.Bucket \notin DOMAIN n.epochMsgs.next THEN Class(n, invalid)
    ELSE LET next == n.epochMsgs.next[msg.Bucket]
         IN  CASE next.commit > msg.SeqNo -> Class(n, past)
               [] next.commit = msg.SeqNo /\ next.prepare > next.commit ->
                    Class([n EXCEPT !.epochMsgs.next[msg.Bucket].commit = msg.SeqNo + 1],
                          current)
               [] OTHER -> Class(n, future)

\* epochMsgs.process
epochMsgsProcess(n, outerMsg) ==
    CASE outerMsg.Type = "Preprepare" -> processPreprepare(n, outerMsg)
      [] outerMsg.Type = "Prepare" -> processPrepare(n, outerMsg)
      [] outerMsg.Type = "Commit" -> processCommit(n, outerMsg)
      [] outerMsg.Type \in {"Forward", "Suspect", "EpochChange"} -> Class(n, current)

processCheckpoint(n, msg) ==
    CASE n.nextCheckpoint > msg.SeqNo -> Class(n, past)
      [] n.nextCheckpoint = msg.SeqNo ->
            IF \E b \in DOMAIN n.epochMsgs.next :
                  n.epochMsgs.next[b].commit < msg.SeqNo
            THEN Class(n, future)
            ELSE Class([n EXCEPT !.nextCheckpoint =
                            msg.SeqNo + n.epochMsgs.epochConfig.checkpointInterval],
                       current)
      [] OTHER -> Class(n, future)

\* nodeMsgs.process
process(n, outerMsg) ==
    CASE outerMsg.Type = "Checkpoint" -> processCheckpoint(n, outerMsg)
      [] outerMsg.Type = "NewEpoch" -> Class(n, current)
      [] OTHER ->
            LET epoch == outerMsg.Epoch
            IN  CASE n.epochMsgs.epochConfig.number < epoch -> Class(n, past)
                  [] n.epochMsgs.epochConfig.number > epoch -> Class(n, future)
                  [] OTHER -> epochMsgsProcess(n, outerMsg)

\* oddities.alreadyProcessed(source, msg), applied to what the rest of the
\* loop yields: the recorder counts the message of the peer as an oddity.
alreadyProcessed(r, source, msg) ==
    [r EXCEPT !.oddities =
        @ (+) SetToBag({[kind |-> "alreadyProcessed", source |-> source,
                         msg |-> msg]})]

\* next(), where the range loop over the buffer visits the messages in the
\* order given: the object, the message returned (None for nil) and the
\* oddities recorded.
\* Variant: the loop ends at the first message that is from the future.
RECURSIVE nextLoop_StopsAtFuture(_, _, _)
nextLoop_StopsAtFuture(n, order, i) ==
    IF i > Len(order) THEN [n |-> n, msg |-> None, oddities |-> EmptyBag]
    ELSE LET msg == order[i]
             c == process(n, msg)
             deleted == [c.n EXCEPT !.buffer = @ (-) SetToBag({msg})]
         IN  CASE c.applyable = past ->
                    alreadyProcessed(nextLoop_StopsAtFuture(deleted, order, i + 1),
                                     n.id, msg)
               [] c.applyable = current ->
                    [n |-> deleted, msg |-> msg, oddities |-> EmptyBag]
               [] c.applyable = future ->
                    [n |-> c.n, msg |-> None, oddities |-> EmptyBag]
               [] OTHER -> nextLoop_StopsAtFuture(c.n, order, i + 1)

RECURSIVE nextLoop(_, _, _)
nextLoop(n, order, i) ==
    IF i > Len(order) THEN [n |-> n, msg |-> None, oddities |-> EmptyBag]
    ELSE LET msg == order[i]
             c == process(n, msg)
             deleted == [c.n EXCEPT !.buffer = @ (-) SetToBag({msg})]
         IN  CASE c.applyable = past ->
                    alreadyProcessed(nextLoop(deleted, order, i + 1), n.id, msg)
               [] c.applyable = current ->
                    [n |-> deleted, msg |-> msg, oddities |-> EmptyBag]
               [] OTHER -> nextLoop(c.n, order, i + 1)

(***************************************************************************)
(* Admitter: the operations as actions                                     *)
(***************************************************************************)

BucketKinds == {"Preprepare", "Prepare", "Commit"}
EpochKinds == {"Suspect", "Forward", "EpochChange"}
Buckets == {0, 1}

Msg(type, epoch, bucket, seqNo) ==
    [Type |-> type, Epoch |-> epoch, Bucket |-> bucket, SeqNo |-> seqNo]

\* The messages the peer sends.
Msgs ==
    {Msg(t, e, b, s) : t \in BucketKinds, e \in FirstEpoch..MaxEpoch,
                       b \in Buckets, s \in 1..MaxSeqNo}
    \cup {Msg("Checkpoint", 0, 0, s) : s \in 1..MaxSeqNo}
    \cup {Msg(t, e, 0, 0) : t \in EpochKinds, e \in FirstEpoch..MaxEpoch}
    \cup {Msg("NewEpoch", 0, 0, 0)}

\* The orders in which a range loop can visit the buffer.
RECURSIVE BagOrders(_)
BagOrders(B) ==
    IF B = EmptyBag THEN {<<>>}
    ELSE UNION {{<<m>> \o o : o \in BagOrders(B (-) SetToBag({m}))} :
                   m \in BagToSet(B)}

\* next() has not been called since the buffer or the epoch last changed.
NotCalled == [called |-> FALSE]

NoReleases == [k \in Buckets \X BucketKinds |-> <<>>]

Ingest ==
    /\ BagCardinality(nodeMsgs.buffer) < MaxBuffer
    /\ \E outerMsg \in Msgs : nodeMsgs' = ingest(nodeMsgs, outerMsg)
    /\ returned' = NotCalled
    /\ oddities' = EmptyBag
    /\ UNCHANGED <<released, seqVars, ecVars, quorums>>

NextMsg ==
    /\ \E order \in BagOrders(nodeMsgs.buffer) :
          LET r == nextLoop(nodeMsgs, order, 1)
          IN  /\ nodeMsgs' = r.n
              /\ returned' = r.msg
              /\ oddities' = r.oddities
              /\ released' =
                    IF r.msg # None /\ r.msg.Type \in BucketKinds
                    THEN [released EXCEPT ![<<r.msg.Bucket, r.msg.Type>>] =
                                              Append(@, r.msg.SeqNo)]
                    ELSE released
    /\ UNCHANGED <<seqVars, ecVars, quorums>>

NewEpoch ==
    /\ nodeMsgs.epochMsgs.epochConfig.number < MaxEpoch
    /\ nodeMsgs' = newEpoch(nodeMsgs,
                            EpochConfig(nodeMsgs.epochMsgs.epochConfig.number + 1))
    /\ returned' = NotCalled
    /\ oddities' = EmptyBag
    /\ released' = NoReleases
    /\ UNCHANGED <<seqVars, ecVars, quorums>>

(***************************************************************************)
(* Admitter: properties                                                    *)
(***************************************************************************)

\* C5: within one epoch, for each bucket and each of the kinds Preprepare,
\* Prepare and Commit, the seq_nos of the peer's messages that next() returns
\* are 1, 2, 3, ... in that order, with no gap and no repeat, whatever was
\* ingested, in whatever order and however many times.
C5_ReleasedInOrder ==
    \A k \in DOMAIN released :
        \A i \in 1..Len(released[k]) : released[k][i] = i

\* Commits 1 and 2 of the bucket the peer does not lead were returned, after
\* its Prepares 1 and 2, and a second copy of Commit 1 is in the buffer.
C5_Witness ==
    /\ released[<<1, "Commit">>] = <<1, 2>>
    /\ released[<<1, "Prepare">>] = <<1, 2>>
    /\ BagIn(Msg("Commit", nodeMsgs.epochMsgs.epochConfig.number, 1, 1),
             nodeMsgs.buffer)

\* C6: next() returns a Checkpoint with seq_no s only if s is next_checkpoint,
\* which it advances by checkpoint_interval, and every bucket's commit cursor
\* is greater than s; never if some bucket's commit cursor is s or less.
C6_CheckpointGating ==
    (returned \in Msgs /\ returned.Type = "Checkpoint") =>
        /\ nodeMsgs.nextCheckpoint =
              returned.SeqNo + nodeMsgs.epochMsgs.epochConfig.checkpointInterval
        /\ \A b \in DOMAIN nodeMsgs.epochMsgs.next :
              nodeMsgs.epochMsgs.next[b].commit > returned.SeqNo

\* C7: while the admitter stays in its epoch, a buffered Preprepare, Prepare,
\* Commit, Suspect, Forward or EpochChange of a higher epoch stays in the
\* buffer, and one of a lower epoch is never returned by next() and is gone
\* from the buffer once next() has gone through the buffer and returned nil.
C7_EpochClassification ==
    [][nodeMsgs'.epochMsgs.epochConfig = nodeMsgs.epochMsgs.epochConfig =>
         \A m \in BagToSet(nodeMsgs.buffer) :
            m.Type \in BucketKinds \cup EpochKinds =>
               /\ m.Epoch > nodeMsgs.epochMsgs.epochConfig.number =>
                     /\ BagIn(m, nodeMsgs'.buffer)
                     /\ CopiesIn(m, nodeMsgs'.buffer) >= CopiesIn(m, nodeMsgs.buffer)
               /\ m.Epoch < nodeMsgs.epochMsgs.epochConfig.number =>
                     /\ returned' # m
                     /\ (/\ returned' = None
                         /\ BagCardinality(nodeMsgs'.buffer)
                               <= BagCardinality(nodeMsgs.buffer))
                        => ~BagIn(m, nodeMsgs'.buffer)]_vars

\* A step of next(): the epoch stays and the buffer does not grow.
IsNextStep ==
    /\ nodeMsgs'.epochMsgs.epochConfig = nodeMsgs.epochMsgs.epochConfig
    /\ BagCardinality(nodeMsgs'.buffer) <= BagCardinality(nodeMsgs.buffer)

\* The peer's Prepare of the current epoch for a bucket and seq_no.
CurrentPrepare(bucket, seqNo) ==
    Msg("Prepare", nodeMsgs.epochMsgs.epochConfig.number, bucket, seqNo)

\* The buckets the peer does not lead.
FollowedBuckets ==
    {b \in DOMAIN nodeMsgs.epochMsgs.next : ~nodeMsgs.epochMsgs.next[b].leader}

\* C13: when the buffer holds only Prepares of the current epoch for one
\* bucket the peer does not lead, in whatever order they came, next()
\* returns the one at the cursor, so that successive calls return 1, 2, ...,
\* k; a Prepare next() returns is never below the cursor; and once next()
\* has returned nil the buffer holds no such Prepare at or below the cursor:
\* those at the cursor were returned and those below it dropped as past.
C13_OutOfOrderRepaired ==
    [][IsNextStep =>
         \A b \in FollowedBuckets :
            LET cursor == nodeMsgs.epochMsgs.next[b].prepare
            IN  /\ (/\ BagIn(CurrentPrepare(b, cursor), nodeMsgs.buffer)
                    /\ \A m \in BagToSet(nodeMsgs.buffer) :
                          \E s \in 1..MaxSeqNo : m = CurrentPrepare(b, s))
                      => /\ returned' = CurrentPrepare(b, cursor)
                         /\ nodeMsgs'.epochMsgs.next[b].prepare = cursor + 1
                /\ \A s \in 1..MaxSeqNo :
                      /\ returned' = CurrentPrepare(b, s) => s = cursor
                      /\ (returned' = None /\ s <= cursor)
                            => ~BagIn(CurrentPrepare(b, s), nodeMsgs'.buffer)]_vars

\* next() returned Prepare 1 of the bucket the peer does not lead while
\* Prepare 2, buffered with it, waits in the buffer.
C13_Witness ==
    /\ returned = CurrentPrepare(1, 1)
    /\ released[<<1, "Prepare">>] = <<1>>
    /\ BagIn(CurrentPrepare(1, 2), nodeMsgs.buffer)

\* The kind that announces a seq_no in the bucket: the peer's Preprepare
\* where it leads, its Prepare elsewhere.
PrepareKind(b) ==
    IF nodeMsgs.epochMsgs.next[b].leader THEN "Preprepare" ELSE "Prepare"

\* C15: in every bucket the commit cursor is at most the prepare cursor, the
\* Commits returned are at most as many as the Prepares (Preprepares where
\* the peer leads) returned, and a step of next() leaves in the buffer a
\* Commit of the current epoch whose seq_no is at or beyond the prepare
\* cursor.
C15_CommitAfterPrepare ==
    [][/\ \A b \in DOMAIN nodeMsgs'.epochMsgs.next :
             /\ nodeMsgs'.epochMsgs.next[b].commit
                   <= nodeMsgs'.epochMsgs.next[b].prepare
             /\ Len(released'[<<b, "Commit">>])
                   <= Len(released'[<<b, IF nodeMsgs'.epochMsgs.next[b].leader
                                         THEN "Preprepare" ELSE "Prepare">>])
       /\ IsNextStep =>
             \A b \in DOMAIN nodeMsgs.epochMsgs.next :
                \A s \in 1..MaxSeqNo :
                   LET m == Msg("Commit", nodeMsgs.epochMsgs.epochConfig.number, b, s)
                   IN  (BagIn(m, nodeMsgs.buffer)
                          /\ s >= nodeMsgs.epochMsgs.next[b].prepare)
                         => /\ returned' # m
                            /\ CopiesIn(m, nodeMsgs'.buffer)
                                  >= CopiesIn(m, nodeMsgs.buffer)]_vars

\* next() returned the peer's Commit 1 of a bucket after its Prepare 1, and
\* its Commit 2 waits in the buffer for Prepare 2.
C15_Witness ==
    /\ returned = Msg("Commit", nodeMsgs.epochMsgs.epochConfig.number, 1, 1)
    /\ released[<<1, PrepareKind(1)>>] = <<1>>
    /\ nodeMsgs.epochMsgs.next[1].prepare = 2
    /\ BagIn(Msg("Commit", nodeMsgs.epochMsgs.epochConfig.number, 1, 2),
             nodeMsgs.buffer)

\* A message of the current epoch from the wrong sender for its bucket: a
\* Preprepare for a bucket the peer does not lead, or a Prepare for a bucket
\* the peer leads.
WrongLeader(m) ==
    /\ m.Type \in {"Preprepare", "Prepare"}
    /\ m.Epoch = nodeMsgs.epochMsgs.epochConfig.number
    /\ (m.Type = "Preprepare") <=> (EpochConfig(m.Epoch).buckets[m.Bucket] # PeerID)

\* In a step of next(), a buffered wrong-leader message is classified
\* invalid with the cursors and next_checkpoint as they were, is not the
\* message returned, and does not keep next() from returning a message when
\* the buffer holds one that is current.
C22_InvalidNotReleased ==
    \A m \in BagToSet(nodeMsgs.buffer) :
        WrongLeader(m) =>
            /\ process(nodeMsgs, m) = Class(nodeMsgs, invalid)
            /\ returned' # m
            /\ (\E c \in BagToSet(nodeMsgs.buffer) :
                    process(nodeMsgs, c).applyable = current)
                  => returned' \in Msgs

\* In a step of next() that visits the whole buffer (it returns nil), each
\* buffered wrong-leader message is among the oddities recorded.
C22_InvalidRecorded ==
    \A m \in BagToSet(nodeMsgs.buffer) :
        (WrongLeader(m) /\ returned' = None) =>
            \E o \in BagToSet(oddities') : o.msg = m

\* C22: a Preprepare from the peer for a bucket it does not lead and a
\* Prepare from the peer for a bucket it leads are classified invalid
\* without moving a cursor or next_checkpoint, are never returned by next(),
\* do not keep next() from returning other messages, and are recorded as
\* oddities by the call of next() that classifies them.
C22_WrongLeaderOddity ==
    [][IsNextStep => C22_InvalidNotReleased /\ C22_InvalidRecorded]_vars

\* The part of C22 without the recording.
C22_WrongLeaderHeld == [][IsNextStep => C22_InvalidNotReleased]_vars

\* next() returned a current message while a wrong-leader Preprepare stays
\* in the buffer.
C22_Held ==
    /\ returned \in Msgs
    /\ \E m \in BagToSet(nodeMsgs.buffer) : WrongLeader(m) /\ m.Type = "Preprepare"

(***************************************************************************)
(* Quorum arithmetic                                                       *)
(***************************************************************************)

\* Bound on the number of nodes of the network configs tried.
MaxNodes == 7

\* The network configs with n nodes and f faults tolerated, n >= 3f + 1.
NetworkConfigs ==
    UNION {{[Nodes |-> [i \in 1..n |-> i - 1], F |-> f] : f \in 0..((n - 1) \div 3)} :
              n \in 1..MaxNodes}

\* The sets of size nodes of nc.
NodeSetsOf(nc, size) == {Q \in SUBSET NodeSet(nc) : Cardinality(Q) = size}

\* The quorum sizes computed for nc, and two sets of intersectionQuorum
\* nodes.
Quorums(nc, q1, q2) ==
    [nc |-> nc,
     intersection |-> intersectionQuorum(nc),
     someCorrect |-> someCorrectQuorum(nc),
     q1 |-> q1, q2 |-> q2]

\* The quorum sizes are computed for another network config.
NewNetworkConfig ==
    /\ \E nc \in NetworkConfigs :
          LET q == CHOOSE Q \in NodeSetsOf(nc, intersectionQuorum(nc)) : TRUE
          IN  quorums' = Quorums(nc, q, q)
    /\ UNCHANGED <<seqVars, ecVars, msgVars>>

\* Another set of intersectionQuorum nodes takes the place of one of the two.
PickQuorum ==
    /\ \E q \in NodeSetsOf(quorums.nc, intersectionQuorum(quorums.nc)) :
          \/ quorums' = Quorums(quorums.nc, q, quorums.q2)
          \/ quorums' = Quorums(quorums.nc, quorums.q1, q)
    /\ UNCHANGED <<seqVars, ecVars, msgVars>>

\* C14: intersection_quorum(n, f) is (n+f+2) div 2, the least integer that
\* is at least (n+f+1)/2, and at most n; two sets of that many nodes share
\* at least f+1 nodes, so at least one node outside any f faulty ones; and
\* some_correct_quorum is f+1.
C14_QuorumArithmetic ==
    LET n == Len(quorums.nc.Nodes)
        f == quorums.nc.F
        q == quorums.intersection
        shared == quorums.q1 \cap quorums.q2
    IN  /\ q = (n + f + 2) \div 2
        /\ 2 * q >= n + f + 1
        /\ 2 * (q - 1) < n + f + 1
        /\ q <= n
        /\ Cardinality(quorums.q1) = q /\ Cardinality(quorums.q2) = q
        /\ Cardinality(shared) >= f + 1
        /\ \A faulty \in SUBSET NodeSet(quorums.nc) :
              Cardinality(faulty) <= f => shared \ faulty # {}
        /\ quorums.someCorrect = f + 1

\* Two quorums of 7 nodes with f = 2 that share just f + 1 nodes.
C14_Witness ==
    /\ Len(quorums.nc.Nodes) = 7
    /\ quorums.nc.F = 2
    /\ Cardinality(quorums.q1 \cap quorums.q2) = quorums.nc.F + 1

(***************************************************************************)
(* Specifications                                                          *)
(***************************************************************************)

\* The state after construction: a sequence newSequence built, no epoch
\* change received, and the admitter newNodeMsgs built.
Start(owner) ==
    /\ seq = newSequence(owner, SlotEpoch, SlotSeqNo)
    /\ actions = EmptyActions
    /\ panicked = FALSE
    /\ persistLog = <<>>
    /\ sendLog = <<>>
    /\ epochChanges = <<>>
    /\ results = <<>>
    /\ nodeMsgs = newNodeMsgs(PeerID, EpochConfig(FirstEpoch))
    /\ returned = NotCalled
    /\ released = NoReleases
    /\ oddities = EmptyBag
    /\ quorums =
          LET q == CHOOSE Q \in NodeSetsOf(networkConfig,
                                           intersectionQuorum(networkConfig)) : TRUE
          IN  Quorums(networkConfig, q, q)

\* The operations of one sequence, owned by this node or by another.
Init == \E owner \in Owners : Start(owner)

Next ==
    \/ Allocate
    \/ SatisfyOutstanding
    \/ ApplyBatchHashResult
    \/ ApplyPrepareMsg
    \/ ApplyCommitMsg

Spec == Init /\ [][Next]_vars

\* The epoch changes arriving and the new epoch configuration constructed.
EcNext == AddEpochChange \/ Construct

EpochSpec == Start(0) /\ [][EcNext]_vars

\* One peer's messages ingested and released.
MsgsNext == Ingest \/ NextMsg \/ NewEpoch

MsgsSpec == Start(0) /\ [][MsgsNext]_vars

\* The quorum sizes computed for one network config after another.
QuorumNext == NewNetworkConfig \/ PickQuorum

QuorumSpec == Start(0) /\ [][QuorumNext]_vars

====
